---- MODULE Spec2Model ----
(***************************************************************************)
(* Model of the Instagram DM automation server (src/unnamed/part_000, the  *)
(* Express server) and of the requests its client (src/src/App.tsx) sends. *)
(*                                                                         *)
(* Node runs one callback at a time, so every action below is one          *)
(* synchronous run of the server: from the arrival of a request or the     *)
(* settling of an awaited promise up to the next await (or the return).    *)
(***************************************************************************)
EXTENDS Integers, Sequences, FiniteSets, TLC

\* ----------------------------------------------------------------- bounds
\* Start requests that get as far as the login call (one handler each).
MaxStarts == 2
\* Longest recipient list a start request carries.
MaxRecipients == 2
\* Number of times the wall clock is advanced in one behaviour.
MaxAdvances == 2
\* Math.random() is drawn as num / RandDen, num in RandSamples.
RandDen == 1000
\* How late (ms) a timer or a status read can be, beyond a whole tick.
LateMs == 500

\* -------------------------------------------------------- program constants
base == 3600
JitterMin == 180
JitterMax == 420
CaptchaMin == 60
CaptchaMax == 120
TickMs == 1000

\* ------------------------------------------------------- optional values
\* A field that is undefined in the source is None, a defined one Some(v).
None == <<>>
Some(v) == <<v>>

\* --------------------------------------------------------------- inputs
HandleAt(k) ==
  CASE k % 3 = 1 -> "alice"
    [] k % 3 = 2 -> "bob"
    [] OTHER -> "carol"

UsernamesOfLen(n) == [k \in 1..n |-> HandleAt(k)]

\* A JSON value that may or may not be an array.
NotArray == [isArray |-> FALSE, items |-> <<>>]
Arr(items) == [isArray |-> TRUE, items |-> items]

\* JSON array entries carry their JavaScript type.
Str(v) == [t |-> "string", v |-> v]
Num(v) == [t |-> "number", v |-> v]

\* The three draws of one wait (jitter, captcha chance, captcha delay): the
\* shortest wait and the longest.
Draws ==
  { <<0, RandDen - 1, 0>>, <<RandDen - 1, 0, RandDen - 1>> }

\* new URL(p) of the WHATWG URL class, on the proxy strings the model uses:
\* the port of a URL is the empty string when it is absent or the scheme's
\* default.
ParseURL(p) ==
  CASE p = "http://10.0.0.1:8080" ->
         [ok |-> TRUE, protocol |-> "http:", hostname |-> "10.0.0.1", port |-> "8080"]
    [] p = "https://proxy.example:3128" ->
         [ok |-> TRUE, protocol |-> "https:", hostname |-> "proxy.example", port |-> "3128"]
    [] p = "http://10.0.0.5:8080" ->
         [ok |-> TRUE, protocol |-> "http:", hostname |-> "10.0.0.5", port |-> "8080"]
    [] p = "socks5://10.0.0.2:1080" ->
         [ok |-> TRUE, protocol |-> "socks5:", hostname |-> "10.0.0.2", port |-> "1080"]
    [] p = "http://10.0.0.3" ->
         [ok |-> TRUE, protocol |-> "http:", hostname |-> "10.0.0.3", port |-> ""]
    [] p = "http://10.0.0.4:80" ->
         [ok |-> TRUE, protocol |-> "http:", hostname |-> "10.0.0.4", port |-> ""]
    [] OTHER ->
         [ok |-> FALSE, protocol |-> "", hostname |-> "", port |-> ""]

isValidProxy(p) ==
  LET u == ParseURL(p)
  IN  /\ u.ok
      /\ (u.protocol = "http:" \/ u.protocol = "https:")
      /\ u.hostname # ""
      /\ u.port # ""

SomeProxies ==
  Arr(<<Str("http://10.0.0.1:8080"), Str("socks5://10.0.0.2:1080"),
        Num("8080"), Str("https://proxy.example:3128")>>)

\* The optional fields of a request: absent in the request for a single
\* recipient, given in the longer ones.
NoOptions == [proxies |-> NotArray, userAgent |-> None]
OptionsFor(n) ==
  IF n = 1 THEN NoOptions ELSE [proxies |-> SomeProxies, userAgent |-> Some("ua")]

Body(igUsername, igPassword, systemPrompt, usernames, opt) ==
  [ igUsername |-> igUsername, igPassword |-> igPassword,
    systemPrompt |-> systemPrompt, usernames |-> usernames,
    proxies |-> opt.proxies, userAgent |-> opt.userAgent ]

\* Requests that pass the checks of line 125.
ValidBodies ==
  { Body("u", "p", "s", Arr(UsernamesOfLen(n)), OptionsFor(n)) :
      n \in 1..MaxRecipients }

\* Requests with one required field missing or empty.
InvalidBodies ==
  LET ok == Arr(UsernamesOfLen(1))
      opt == NoOptions
  IN  { Body("", "p", "s", ok, opt), Body("u", "", "s", ok, opt),
        Body("u", "p", "", ok, opt), Body("u", "p", "s", NotArray, opt),
        Body("u", "p", "s", Arr(<<>>), opt) }

\* ---------------------------------------------------------------- state
VARIABLES
  state,     \* the module-level JobState
  job,       \* per start request: the handler's and its loop's locals
  now,       \* Date.now(), in ms
  apiKey,    \* process.env.OPENROUTER_API_KEY ("" when unset)
  res,       \* the HTTP response the last step sent, if any
  advances,  \* how often the clock has been advanced
  probe      \* arguments and result of a function evaluated on its own

vars == <<state, job, now, apiKey, res, advances, probe>>

JobIds == 1..MaxStarts

InitialState ==
  [ running |-> FALSE, igUser |-> None, total |-> 0, index |-> 0, sent |-> 0,
    failed |-> 0, currentUsername |-> None, currentProxy |-> None,
    userAgent |-> None, nextSendAt |-> None, lastError |-> None,
    lastStep |-> None ]

\* A handler that does not exist (yet, or any more).
IdleJob ==
  [ pc |-> "idle", igUsername |-> "", usernames |-> <<>>, proxies |-> NotArray,
    userAgent |-> None, proxyList |-> <<>>, proxyIndex |-> 0, proxyUrl |-> None,
    i |-> 0, target |-> 0, wakeAt |-> 0, exit |-> "none", finals |-> 0 ]

\* No function is being evaluated on its own.
NoProbe == [fn |-> "none"]

NoResponse == [route |-> "none", code |-> 0, body |-> [none |-> TRUE]]
Response(route, code, body) == [route |-> route, code |-> code, body |-> body]
ErrorBody(msg) == [error |-> msg]

Init ==
  /\ state = InitialState
  /\ job = [j \in JobIds |-> IdleJob]
  /\ now = 0
  /\ apiKey \in {"", "sk-or-key"}
  /\ res = NoResponse
  /\ advances = 0
  /\ probe = NoProbe

\* A variant that rounds: Math.round(Math.random() * (max - min + 1)) + min
jitterSeconds_Rounded(r) ==
  ((2 * r * (JitterMax - JitterMin + 1) + RandDen) \div (2 * RandDen)) + JitterMin

\* --------------------------------------------------------- pacing policy
\* Math.floor(Math.random() * (max - min + 1)) + min, with Math.random() = r / RandDen
jitterSeconds(r) == ((r * (JitterMax - JitterMin + 1)) \div RandDen) + JitterMin

captchaExtraDelaySeconds(r) ==
  ((r * (CaptchaMax - CaptchaMin + 1)) \div RandDen) + CaptchaMin

\* Math.random() < 0.2
CaptchaDrawn(r) == r * 10 < 2 * RandDen

\* base + jitter + captchaExtra, from the three draws of one wait
waitSec(r1, r2, r3) ==
  base + jitterSeconds(r1)
       + (IF CaptchaDrawn(r2) THEN captchaExtraDelaySeconds(r3) ELSE 0)

\* ------------------------------------------------------- background loop
\* The operators below fold one synchronous run of the loop over the pair
\* (JobState s, locals h) and return the pair it ends with.
Run(s, h) == [st |-> s, h |-> h]

\* A variant that keeps every string entry: proxies.filter((p) => typeof p === 'string')
FilterProxies_StringsOnly(proxies) ==
  IF proxies.isArray
    THEN LET keep == SelectSeq(proxies.items, LAMBDA p : p.t = "string")
         IN  [k \in 1..Len(keep) |-> keep[k].v]
    ELSE <<>>

\* proxies.filter((p) => typeof p === 'string' && isValidProxy(p)), or []
FilterProxies(proxies) ==
  IF proxies.isArray
    THEN LET keep == SelectSeq(proxies.items, LAMBDA p : p.t = "string" /\ isValidProxy(p.v))
         IN  [k \in 1..Len(keep) |-> keep[k].v]
    ELSE <<>>

\* Mutant of Finally: the finally block forgets nextSendAt.
Finally_KeepsNextSendAt(s) ==
  [s EXCEPT !.running = FALSE, !.currentUsername = None]

\* finally { running = false; currentUsername = undefined; nextSendAt = undefined }
Finally(s) ==
  [s EXCEPT !.running = FALSE, !.currentUsername = None, !.nextSendAt = None]

\* The loop has left the for statement (by its condition or by break): the
\* finally block runs and the closure is gone.
ExitLoop(s, h, how) ==
  Run(Finally(s), [IdleJob EXCEPT !.pc = "done", !.exit = how, !.finals = h.finals + 1])

\* A variant without proxyIndex++.
BeginDispatch_CursorStuck(s, h, i) ==
  LET uname == h.usernames[i + 1]
      rotate == Len(h.proxyList) > 0
      current == h.proxyList[(h.proxyIndex % Len(h.proxyList)) + 1]
  IN  Run([s EXCEPT !.index = i,
                    !.currentUsername = Some(uname),
                    !.currentProxy = IF rotate THEN Some(current) ELSE None,
                    !.lastStep = Some("resolve_user_pk")],
          [h EXCEPT !.i = i,
                    !.pc = "resolve",
                    !.proxyUrl = IF rotate THEN Some(current) ELSE None])

\* Lines 167-183: the body of the for statement up to the first await.
BeginDispatch(s, h, i) ==
  LET uname == h.usernames[i + 1]
      rotate == Len(h.proxyList) > 0
      current == h.proxyList[(h.proxyIndex % Len(h.proxyList)) + 1]
  IN  Run([s EXCEPT !.index = i,
                    !.currentUsername = Some(uname),
                    !.currentProxy = IF rotate THEN Some(current) ELSE None,
                    !.lastStep = Some("resolve_user_pk")],
          [h EXCEPT !.i = i,
                    !.pc = "resolve",
                    !.proxyUrl = IF rotate THEN Some(current) ELSE None,
                    !.proxyIndex = IF rotate THEN h.proxyIndex + 1 ELSE h.proxyIndex])

\* Lines 165-166: the for condition and the stop check, entered with index i.
LoopTop(s, h, i) ==
  IF i < Len(h.usernames)
    THEN IF ~s.running THEN ExitLoop(s, h, "break") ELSE BeginDispatch(s, h, i)
    ELSE ExitLoop(s, h, "exhausted")

\* A variant that waits after the last recipient too: if (i < usernames.length)
AfterDispatch_WaitsAfterLast(s, h, t, r1, r2, r3) ==
  IF h.i < Len(h.usernames)
    THEN LET target == t + waitSec(r1, r2, r3) * 1000
             s1 == [s EXCEPT !.nextSendAt = Some(target)]
         IN  IF t < target /\ s1.running
               THEN Run(s1, [h EXCEPT !.pc = "wait", !.target = target,
                                      !.wakeAt = t + TickMs])
               ELSE LoopTop(s1, h, h.i + 1)
    ELSE LoopTop(s, h, h.i + 1)

\* Lines 202-214: after the try/catch of recipient h.i, at time t.
AfterDispatch(s, h, t, r1, r2, r3) ==
  IF h.i < Len(h.usernames) - 1
    THEN LET target == t + waitSec(r1, r2, r3) * 1000
             s1 == [s EXCEPT !.nextSendAt = Some(target)]
         IN  IF t < target /\ s1.running
               THEN Run(s1, [h EXCEPT !.pc = "wait", !.target = target,
                                      !.wakeAt = t + TickMs])
               ELSE LoopTop(s1, h, h.i + 1)
    ELSE LoopTop(s, h, h.i + 1)

\* Lines 195-196: the dispatch succeeded.
Succeeded(s) == [s EXCEPT !.sent = s.sent + 1, !.lastError = None]

\* Mutant of Caught: a failed recipient also ends the batch.
Caught_Fatal(s, msg) ==
  [s EXCEPT !.failed = s.failed + 1, !.lastError = Some(msg), !.running = FALSE]

\* Lines 197-200: the catch block; msg is err.message or String(err).
Caught(s, msg) == [s EXCEPT !.failed = s.failed + 1, !.lastError = Some(msg)]

\* -------------------------------------------------------------- requests
\* The lowest handler slot not used yet.
Fresh(k) == job[k].pc = "idle" /\ \A m \in 1..(k - 1) : job[m].pc # "idle"

\* Line 125: a required field is missing or empty.
MissingFields(body) ==
  \/ body.igUsername = ""
  \/ body.igPassword = ""
  \/ body.systemPrompt = ""
  \/ ~body.usernames.isArray
  \/ Len(body.usernames.items) = 0

\* POST /api/start, line 105: a job is running; the body is not read.
StartWhileRunning ==
  /\ state.running
  /\ res' = Response("start", 400, ErrorBody("Job already running"))
  /\ UNCHANGED <<state, job, now, apiKey, probe, advances>>

\* POST /api/start, lines 105-127: a required field is missing.
StartInvalid(body) ==
  /\ ~state.running
  /\ MissingFields(body)
  /\ res' = Response("start", 400, ErrorBody("Missing required fields"))
  /\ UNCHANGED <<state, job, now, apiKey, probe, advances>>

\* POST /api/start, lines 105-132: the environment holds no API key.
StartWithoutKey(body) ==
  /\ ~state.running
  /\ ~MissingFields(body)
  /\ apiKey = ""
  /\ res' = Response("start", 400,
                     ErrorBody("Missing OPENROUTER_API_KEY in environment"))
  /\ UNCHANGED <<state, job, now, apiKey, probe, advances>>

\* Mutant of StartAwaitLogin: the check of line 105 is missing.
StartAwaitLogin_NoRunningCheck(k, body) ==
  /\ Fresh(k)
  /\ ~MissingFields(body)
  /\ apiKey # ""
  /\ job' = [job EXCEPT ![k] =
               [IdleJob EXCEPT !.pc = "login",
                               !.igUsername = body.igUsername,
                               !.usernames = body.usernames.items,
                               !.proxies = body.proxies,
                               !.userAgent = body.userAgent]]
  /\ res' = NoResponse
  /\ UNCHANGED <<state, now, apiKey, probe, advances>>

\* POST /api/start, lines 104-142: the checks pass and the handler awaits
\* ig.account.login.
StartAwaitLogin(k, body) ==
  /\ Fresh(k)
  /\ ~state.running
  /\ ~MissingFields(body)
  /\ apiKey # ""
  /\ job' = [job EXCEPT ![k] =
               [IdleJob EXCEPT !.pc = "login",
                               !.igUsername = body.igUsername,
                               !.usernames = body.usernames.items,
                               !.proxies = body.proxies,
                               !.userAgent = body.userAgent]]
  /\ res' = NoResponse
  /\ UNCHANGED <<state, now, apiKey, probe, advances>>

\* A variant that spreads the old state: state = { ...state, running: true, ... }
\* without the counters.
NewJobState_KeepsCounters(h) ==
  [ running |-> TRUE, igUser |-> Some(h.igUsername), total |-> Len(h.usernames),
    index |-> 0, sent |-> state.sent, failed |-> state.failed,
    currentUsername |-> None, currentProxy |-> None, userAgent |-> h.userAgent,
    nextSendAt |-> None, lastError |-> state.lastError,
    lastStep |-> Some("login_success") ]

\* Lines 145-157: the JobState of a newly accepted job.
NewJobState(h) ==
  [ running |-> TRUE, igUser |-> Some(h.igUsername), total |-> Len(h.usernames),
    index |-> 0, sent |-> 0, failed |-> 0, currentUsername |-> None,
    currentProxy |-> None, userAgent |-> h.userAgent, nextSendAt |-> None,
    lastError |-> None, lastStep |-> Some("login_success") ]

\* Lines 145-223: the login succeeded. The handler replaces the JobState,
\* starts the background loop, which runs up to its first await, and answers.
LoginSucceeded(k) ==
  /\ job[k].pc = "login"
  /\ LET h == [job[k] EXCEPT !.proxyIndex = 0,
                             !.proxyList = FilterProxies(job[k].proxies)]
         r == LoopTop(NewJobState(h), h, 0)
     IN  /\ state' = r.st
         /\ job' = [job EXCEPT ![k] = r.h]
  /\ res' = Response("start", 200, [ok |-> TRUE])
  /\ UNCHANGED <<now, apiKey, probe, advances>>

LoginErrors == {"", "The password you entered is incorrect."}

\* Mutant of LoginFailed: the JobState is prepared before the login call
\* and stays in place when the login throws.
LoginFailed_StateReplaced(k, msg) ==
  /\ job[k].pc = "login"
  /\ state' = NewJobState(job[k])
  /\ job' = [job EXCEPT ![k] = [IdleJob EXCEPT !.pc = "failed"]]
  /\ res' = Response("start", 500,
                     ErrorBody(IF msg = "" THEN "Unknown error" ELSE msg))
  /\ UNCHANGED <<now, apiKey, probe, advances>>

\* Lines 142, 224-226: the login threw; the catch answers 500.
LoginFailed(k, msg) ==
  /\ job[k].pc = "login"
  /\ job' = [job EXCEPT ![k] = [IdleJob EXCEPT !.pc = "failed"]]
  /\ res' = Response("start", 500,
                     ErrorBody(IF msg = "" THEN "Unknown error" ELSE msg))
  /\ UNCHANGED <<state, now, apiKey, probe, advances>>

\* ------------------------------------------------- steps of the loop
ResolveErrors == {"User with exact username not found."}
GenerateErrors == {"OpenRouter failed with status 429", "OpenRouter returned no content"}
SendErrors == {"Request failed"}

\* One run of the loop of handler k from the end of its try/catch on.
Continue(k, s, r1, r2, r3) ==
  LET r == AfterDispatch(s, job[k], now, r1, r2, r3)
  IN  /\ state' = r.st
      /\ job' = [job EXCEPT ![k] = r.h]
      /\ res' = NoResponse
      /\ UNCHANGED <<now, apiKey, probe, advances>>

\* Lines 183-188: searchExact resolved; the loop awaits the generator.
ResolveSucceeded(k) ==
  /\ job[k].pc = "resolve"
  /\ state' = [state EXCEPT !.lastStep = Some("generate_message")]
  /\ job' = [job EXCEPT ![k].pc = "generate"]
  /\ res' = NoResponse
  /\ UNCHANGED <<now, apiKey, probe, advances>>

\* A variant that counts the failed resolve and goes on to generate.
ResolveFailed_GoesOn(k, msg, r1, r2, r3) ==
  /\ job[k].pc = "resolve"
  /\ state' = [Caught(state, msg) EXCEPT !.lastStep = Some("generate_message")]
  /\ job' = [job EXCEPT ![k].pc = "generate"]
  /\ res' = NoResponse
  /\ UNCHANGED <<now, apiKey, probe, advances>>

\* Lines 183, 197-214: searchExact threw.
ResolveFailed(k, msg, r1, r2, r3) ==
  /\ job[k].pc = "resolve"
  /\ Continue(k, Caught(state, msg), r1, r2, r3)

\* A variant that does not record the send stage.
GenerateSucceeded_StepNotRecorded(k) ==
  /\ job[k].pc = "generate"
  /\ state' = state
  /\ job' = [job EXCEPT ![k].pc = "send"]
  /\ res' = NoResponse
  /\ UNCHANGED <<now, apiKey, probe, advances>>

\* Lines 188-193: the generator answered with content; the message is
\* sanitized and the loop awaits broadcastText.
GenerateSucceeded(k) ==
  /\ job[k].pc = "generate"
  /\ state' = [state EXCEPT !.lastStep = Some("send_dm")]
  /\ job' = [job EXCEPT ![k].pc = "send"]
  /\ res' = NoResponse
  /\ UNCHANGED <<now, apiKey, probe, advances>>

\* Lines 188, 94-99, 197-214: openrouterGenerate threw.
GenerateFailed(k, msg, r1, r2, r3) ==
  /\ job[k].pc = "generate"
  /\ Continue(k, Caught(state, msg), r1, r2, r3)

\* Lines 193-196, 202-214: broadcastText resolved.
SendSucceeded(k, r1, r2, r3) ==
  /\ job[k].pc = "send"
  /\ Continue(k, Succeeded(state), r1, r2, r3)

\* Lines 193, 197-214: broadcastText threw.
SendFailed(k, msg, r1, r2, r3) ==
  /\ job[k].pc = "send"
  /\ Continue(k, Caught(state, msg), r1, r2, r3)

\* A variant whose wait ends only by cancellation: while (state.running) ...
TimerFired_WaitsWhileRunning(k) ==
  /\ job[k].pc = "wait"
  /\ now >= job[k].wakeAt
  /\ LET h == job[k]
         r == IF state.running
                THEN Run(state, [h EXCEPT !.wakeAt = now + TickMs])
                ELSE LoopTop(state, h, h.i + 1)
     IN  /\ state' = r.st
         /\ job' = [job EXCEPT ![k] = r.h]
  /\ res' = NoResponse
  /\ UNCHANGED <<now, apiKey, probe, advances>>

\* Lines 211-213 and on: delay(1000) resolved, no sooner than a tick after
\* it was armed.
TimerFired(k) ==
  /\ job[k].pc = "wait"
  /\ now >= job[k].wakeAt
  /\ LET h == job[k]
         r == IF now < h.target /\ state.running
                THEN Run(state, [h EXCEPT !.wakeAt = now + TickMs])
                ELSE LoopTop(state, h, h.i + 1)
     IN  /\ state' = r.st
         /\ job' = [job EXCEPT ![k] = r.h]
  /\ res' = NoResponse
  /\ UNCHANGED <<now, apiKey, probe, advances>>

\* ------------------------------------------------- the other requests
\* Math.ceil(a / b) for b > 0
Ceil(a, b) == -((-a) \div b)
Max(a, b) == IF a >= b THEN a ELSE b

\* x || null for an optional string: undefined and '' give null
StrOrNull(x) == IF x = None \/ x = Some("") THEN None ELSE x

\* x || null for an optional number: undefined and 0 give null
NumOrNull(x) == IF x = None \/ x = Some(0) THEN None ELSE x

\* A variant without the clamp: Math.ceil((state.nextSendAt - now) / 1000)
secondsRemaining_Unclamped(s, t) ==
  IF NumOrNull(s.nextSendAt) # None
    THEN Ceil(s.nextSendAt[1] - t, 1000)
    ELSE 0

\* Line 231
secondsRemaining(s, t) ==
  IF NumOrNull(s.nextSendAt) # None
    THEN Max(Ceil(s.nextSendAt[1] - t, 1000), 0)
    ELSE 0

\* Lines 232-246: the body of the status response
StatusBody(s, t) ==
  [ running |-> s.running, igUser |-> s.igUser, total |-> s.total,
    index |-> s.index, sent |-> s.sent, failed |-> s.failed,
    currentUsername |-> s.currentUsername, currentProxy |-> s.currentProxy,
    userAgent |-> s.userAgent, secondsRemaining |-> secondsRemaining(s, t),
    nextSendAt |-> NumOrNull(s.nextSendAt), lastError |-> StrOrNull(s.lastError),
    lastStep |-> StrOrNull(s.lastStep) ]

\* GET /api/status
Status ==
  /\ res' = Response("status", 200, StatusBody(state, now))
  /\ UNCHANGED <<state, job, now, apiKey, probe, advances>>

\* POST /api/stop, as the client's Stop button sends it. The server
\* registers two routes, POST /api/start and GET /api/status, so Express
\* answers this request 404 and no handler of the program runs.
Stop ==
  /\ res' = Response("stop", 404, ErrorBody("Cannot POST /api/stop"))
  /\ UNCHANGED <<state, job, now, apiKey, probe, advances>>

\* ------------------------------------------------------------- the clock
LongMs == (base + JitterMax + CaptchaMax) * 1000
ClockSteps == {TickMs + LateMs, LongMs}

AdvanceClock(d) ==
  /\ advances < MaxAdvances
  /\ now' = now + d
  /\ advances' = advances + 1
  /\ res' = NoResponse
  /\ UNCHANGED <<state, job, apiKey, probe>>

\* -------------------------------------------------------- specification
Next ==
  \/ StartWhileRunning
  \/ \E body \in InvalidBodies : StartInvalid(body)
  \/ \E body \in ValidBodies : StartWithoutKey(body)
  \/ \E k \in JobIds, body \in ValidBodies : StartAwaitLogin(k, body)
  \/ \E k \in JobIds : LoginSucceeded(k)
  \/ \E k \in JobIds, msg \in LoginErrors : LoginFailed(k, msg)
  \/ \E k \in JobIds : ResolveSucceeded(k)
  \/ \E k \in JobIds, msg \in ResolveErrors, dr \in Draws :
       ResolveFailed(k, msg, dr[1], dr[2], dr[3])
  \/ \E k \in JobIds : GenerateSucceeded(k)
  \/ \E k \in JobIds, msg \in GenerateErrors, dr \in Draws :
       GenerateFailed(k, msg, dr[1], dr[2], dr[3])
  \/ \E k \in JobIds, dr \in Draws : SendSucceeded(k, dr[1], dr[2], dr[3])
  \/ \E k \in JobIds, msg \in SendErrors, dr \in Draws :
       SendFailed(k, msg, dr[1], dr[2], dr[3])
  \/ \E k \in JobIds : TimerFired(k)
  \/ Status
  \/ Stop
  \/ \E d \in ClockSteps : AdvanceClock(d)

Spec == Init /\ [][Next]_vars

\* ================================================================ claims
\* Positions of a handler whose background loop is alive.
LoopPcs == {"resolve", "generate", "send", "wait"}
Live(k) == job[k].pc \in LoopPcs
LiveLoops == {k \in JobIds : Live(k)}

\* A start request arrives (the first synchronous run of its handler).
StartArrives ==
  \/ StartWhileRunning
  \/ \E body \in InvalidBodies : StartInvalid(body)
  \/ \E body \in ValidBodies : StartWithoutKey(body)
  \/ \E k \in JobIds, body \in ValidBodies : StartAwaitLogin(k, body)

\* The dispatch of handler k's current recipient fails at some stage.
DispatchFails(k, msg) ==
  \E dr \in Draws :
    \/ ResolveFailed(k, msg, dr[1], dr[2], dr[3])
    \/ GenerateFailed(k, msg, dr[1], dr[2], dr[3])
    \/ SendFailed(k, msg, dr[1], dr[2], dr[3])

DispatchSucceeds(k) ==
  \E dr \in Draws : SendSucceeded(k, dr[1], dr[2], dr[3])

DispatchErrors == ResolveErrors \cup GenerateErrors \cup SendErrors

\* C1: at most one background loop is alive at any time.
C1_AtMostOneLiveLoop == Cardinality(LiveLoops) <= 1

\* C2: a start request that arrives while running = true is answered
\* 400 "Job already running", starts no handler or loop and leaves the
\* JobState as it was.
C2_StartWhileRunningRejected ==
  [][(StartArrives /\ state.running) =>
       /\ res' = Response("start", 400, ErrorBody("Job already running"))
       /\ state' = state
       /\ job' = job]_vars

C2_Witness ==
  /\ res = Response("start", 400, ErrorBody("Job already running"))
  /\ state.running
  /\ LiveLoops # {}

\* C3: when a loop leaves the for statement by exhausting its recipients,
\* the JobState has sent + failed = total and index = total - 1.
C3_CompletionCounts ==
  [][\A k \in JobIds :
       (Live(k) /\ job'[k].pc = "done" /\ job'[k].exit = "exhausted") =>
         /\ state'.sent + state'.failed = state'.total
         /\ state'.index = state'.total - 1]_vars

\* C4: 0 <= index <= total always, and sent + failed <= index + 1 while
\* running.
C4_IndexAndCounters ==
  /\ 0 <= state.index
  /\ state.index <= state.total
  /\ state.running => state.sent + state.failed <= state.index + 1

\* C5: a failed dispatch adds one to failed, leaves sent alone and records
\* the error text; a successful one adds one to sent, leaves failed alone
\* and clears lastError. When recipients remain, neither changes running,
\* and the loop of a running job goes on to wait for the next recipient,
\* which it dispatches once the wait is over.
C5_FailureAbsorbed ==
  [][\A k \in JobIds :
       /\ (job[k].pc \in {"resolve", "generate", "send"} /\ job'[k] # job[k]) =>
            /\ \A msg \in DispatchErrors :
                 DispatchFails(k, msg) =>
                   /\ state'.failed = state.failed + 1
                   /\ state'.sent = state.sent
                   /\ state'.lastError = Some(msg)
            /\ DispatchSucceeds(k) =>
                   /\ state'.sent = state.sent + 1
                   /\ state'.failed = state.failed
                   /\ state'.lastError = None
            /\ ( /\ job'[k].pc \notin {"generate", "send"}
                 /\ job[k].i < Len(job[k].usernames) - 1 ) =>
                   /\ state'.running = state.running
                   /\ state.running =>
                        /\ job'[k].pc = "wait"
                        /\ job'[k].i = job[k].i
                        /\ job'[k].usernames = job[k].usernames
       /\ (job[k].pc = "wait" /\ job'[k] # job[k]
             /\ state.running /\ now >= job[k].target) =>
            /\ job'[k].pc = "resolve"
            /\ job'[k].i = job[k].i + 1
            /\ state'.index = job[k].i + 1
            /\ state'.running]_vars

\* A resolve failure on the first of two recipients has been absorbed: the
\* job is still running and its loop waits for the second.
C5_Witness ==
  \E k \in JobIds :
    /\ job[k].pc = "wait"
    /\ job[k].i = 0
    /\ state.running
    /\ state.failed = 1
    /\ state.sent = 0
    /\ state.lastError = Some("User with exact username not found.")

\* C6: the step in which a loop ends, by exhaustion or by break, is the one
\* run of its finally block, and it leaves running = false with
\* currentUsername and nextSendAt absent.
C6_FinallyOnEveryExit ==
  [][\A k \in JobIds :
       /\ (job[k].pc # "done" /\ job'[k].pc = "done") =>
            /\ Live(k)
            /\ job'[k].exit \in {"exhausted", "break"}
            /\ ~state'.running
            /\ state'.currentUsername = None
            /\ state'.nextSendAt = None
       /\ job'[k].finals = (IF job'[k].pc = "done" THEN 1 ELSE 0)]_vars

\* One loop has ended by exhausting its recipients and another by break.
C6_Witness ==
  \E k, m \in JobIds :
    /\ job[k].pc = "done" /\ job[k].exit = "exhausted"
    /\ job[m].pc = "done" /\ job[m].exit = "break"

\* A start request is answered with an error.
StartFails ==
  \/ StartWhileRunning
  \/ \E body \in InvalidBodies : StartInvalid(body)
  \/ \E body \in ValidBodies : StartWithoutKey(body)
  \/ \E k \in JobIds, msg \in LoginErrors : LoginFailed(k, msg)

\* C7: a start request that fails (already running, missing field, missing
\* API key, failed login) is answered with an error, brings no loop to
\* life and leaves the JobState as it was, as does the arrival of any start
\* request (up to its login call).
C7_FailedStartLeavesState ==
  [][/\ StartFails =>
          /\ res'.route = "start"
          /\ res'.code \in {400, 500}
          /\ DOMAIN res'.body = {"error"}
          /\ res'.body.error # ""
          /\ state' = state
          /\ \A k \in JobIds : job'[k].pc \in LoopPcs => job[k].pc \in LoopPcs
     /\ StartArrives => state' = state]_vars

\* A login has failed while the JobState of an earlier, finished job was in
\* place.
C7_Witness ==
  /\ res = Response("start", 500, ErrorBody("Unknown error"))
  /\ state.total > 0
  /\ \E k \in JobIds : job[k].pc = "failed"

\* C8: a stop request handled while a job is running sets running = false.
C8_StopClearsRunning ==
  [][(res'.route = "stop" /\ state.running) => ~state'.running]_vars

\* C9: a status read that directly follows a stop request reports
\* running = false.
C9_StatusAfterStop ==
  [][(res.route = "stop" /\ res'.route = "status") => ~res'.body.running]_vars

\* C10: when a stop request has arrived during a loop's inter-send wait,
\* the next tick of that wait ends the loop by break.
C10_StopEndsWait ==
  [][\A k \in JobIds :
       (res.route = "stop" /\ job[k].pc = "wait" /\ TimerFired(k)) =>
         job'[k].pc = "done" /\ job'[k].exit = "break"]_vars

\* The time of a whole wait passes at once while some loop is waiting for
\* its target; unlike AdvanceClock it is not counted against MaxAdvances, so
\* that a pending wait can always come to its end.
WaitElapses ==
  /\ \E k \in JobIds : job[k].pc = "wait" /\ now < job[k].target
  /\ now' = now + LongMs
  /\ res' = NoResponse
  /\ UNCHANGED <<state, job, apiKey, probe, advances>>

\* A step of handler k that follows an await: the awaited call returns or
\* throws, or the wait's timer fires.
HandlerResumes(k) ==
  \/ LoginSucceeded(k)
  \/ \E msg \in LoginErrors : LoginFailed(k, msg)
  \/ ResolveSucceeded(k)
  \/ GenerateSucceeded(k)
  \/ DispatchSucceeds(k)
  \/ \E msg \in DispatchErrors : DispatchFails(k, msg)
  \/ TimerFired(k)

\* The requests and the handler steps under the clock of WaitElapses.
NextLive ==
  \/ \E k \in JobIds, body \in ValidBodies : StartAwaitLogin(k, body)
  \/ StartWhileRunning
  \/ Stop
  \/ Status
  \/ \E k \in JobIds : HandlerResumes(k)
  \/ WaitElapses

\* Every awaited call eventually returns or throws, every due timer
\* eventually fires, and time advances.
SpecLive ==
  /\ Init
  /\ [][NextLive]_vars
  /\ \A k \in JobIds : WF_vars(HandlerResumes(k))
  /\ WF_vars(WaitElapses)

\* ---------------------------------------------------------------------
\* One job of up to MaxAttempts recipients, over proxy lists of every kind.

MaxAttempts == 5

ThreeProxies ==
  Arr(<<Str("http://10.0.0.1:8080"), Str("https://proxy.example:3128"),
        Str("http://10.0.0.5:8080")>>)

\* Entries that new URL rejects, of another scheme, without a port, with the
\* scheme's default port, and not a string, among two valid ones.
MixedProxies ==
  Arr(<<Str("not a url"), Str("http://10.0.0.1:8080"),
        Str("socks5://10.0.0.2:1080"), Str("http://10.0.0.3"),
        Str("http://10.0.0.4:80"), Num("8080"),
        Str("https://proxy.example:3128")>>)

NoValidProxies == Arr(<<Str("socks5://10.0.0.2:1080"), Str("not a url")>>)

ProxyInputs == {NotArray, Arr(<<>>), NoValidProxies, ThreeProxies, MixedProxies}

OneJobBodies ==
  { Body("u", "p", "s", Arr(UsernamesOfLen(n)), [proxies |-> px, userAgent |-> None]) :
      n \in 1..MaxAttempts, px \in ProxyInputs }

NextOneJob ==
  \/ \E body \in OneJobBodies : StartAwaitLogin(1, body)
  \/ HandlerResumes(1)
  \/ Status
  \/ \E d \in ClockSteps : AdvanceClock(d)
  \/ WaitElapses

SpecOneJob == Init /\ [][NextOneJob]_vars

\* ---------------------------------------------------------------------
\* The length of one wait, computed on its own from its three draws.

AllDraws == 0..(RandDen - 1)
EndDraws == {0, RandDen - 1}
\* Draws on both sides of Math.random() < 0.2.
ChanceDraws == {0, ((2 * RandDen) \div 10) - 1, (2 * RandDen) \div 10, RandDen - 1}

WaitProbe(r1, r2, r3) ==
  [fn |-> "waitSec", r1 |-> r1, r2 |-> r2, r3 |-> r3, done |-> FALSE,
   jitter |-> 0, captchaExtra |-> 0, waitSec |-> 0]

InitPacing ==
  /\ state = InitialState
  /\ job = [k \in JobIds |-> IdleJob]
  /\ now = 0
  /\ apiKey = "sk-or-key"
  /\ res = NoResponse
  /\ advances = 0
  /\ \/ \E r1 \in AllDraws, r2 \in ChanceDraws, r3 \in EndDraws :
          probe = WaitProbe(r1, r2, r3)
     \/ \E r1 \in EndDraws, r2 \in ChanceDraws, r3 \in AllDraws :
          probe = WaitProbe(r1, r2, r3)

\* Lines 203-207: jitter, then the captcha chance, then the captcha delay.
ComputeWait ==
  /\ probe.fn = "waitSec"
  /\ ~probe.done
  /\ probe' = [probe EXCEPT
                 !.done = TRUE,
                 !.jitter = jitterSeconds(probe.r1),
                 !.captchaExtra = IF CaptchaDrawn(probe.r2)
                                    THEN captchaExtraDelaySeconds(probe.r3)
                                    ELSE 0,
                 !.waitSec = waitSec(probe.r1, probe.r2, probe.r3)]
  /\ UNCHANGED <<state, job, now, apiKey, res, advances>>

SpecPacing == InitPacing /\ [][ComputeWait]_vars

\* ---------------------------------------------------------------------
\* sanitizeMessage, evaluated on its own.  A string is the sequence of its
\* characters (one-character strings).

\* \s, on the characters the model uses
Spaces == {" ", "\n"}
IsSpace(c) == c \in Spaces

\* The grave accent character, which a string of this language cannot hold.
Backtick == "grave"

\* String.prototype.trim
Trim(s) ==
  LET idx == {i \in 1..Len(s) : ~IsSpace(s[i])}
  IN  IF idx = {}
        THEN <<>>
        ELSE SubSeq(s, CHOOSE i \in idx : \A j \in idx : i <= j,
                       CHOOSE i \in idx : \A j \in idx : i >= j)

MatchesAt(s, i, pat) ==
  /\ i + Len(pat) - 1 <= Len(s)
  /\ SubSeq(s, i, i + Len(pat) - 1) = pat

\* s.replace(/(?:p1|p2|...)/g, rep) for literal alternatives, from index i.
RECURSIVE ReplaceLiterals(_, _, _, _)
ReplaceLiterals(s, i, pats, rep) ==
  IF i > Len(s)
    THEN <<>>
    ELSE LET hit == {pat \in pats : MatchesAt(s, i, pat)}
         IN  IF hit # {}
               THEN rep \o ReplaceLiterals(s, i + Len(CHOOSE pat \in hit : TRUE), pats, rep)
               ELSE <<s[i]>> \o ReplaceLiterals(s, i + 1, pats, rep)

\* /\[(?:Name|name|Your Name\/Brand|your name|brand|Brand)\]/
BracketTokens ==
  { <<"[", "N", "a", "m", "e", "]">>,
    <<"[", "n", "a", "m", "e", "]">>,
    <<"[", "Y", "o", "u", "r", " ", "N", "a", "m", "e", "/", "B", "r", "a", "n", "d", "]">>,
    <<"[", "y", "o", "u", "r", " ", "n", "a", "m", "e", "]">>,
    <<"[", "b", "r", "a", "n", "d", "]">>,
    <<"[", "B", "r", "a", "n", "d", "]">> }

\* /\{(?:name|Name)\}/
BraceTokens == { <<"{", "n", "a", "m", "e", "}">>, <<"{", "N", "a", "m", "e", "}">> }

\* The i flag, on the letters of "name".
Lower(c) ==
  CASE c = "N" -> "n" [] c = "A" -> "a" [] c = "M" -> "m" [] c = "E" -> "e"
    [] OTHER -> c

\* The least index from i on whose character is not whitespace (Len(s) + 1
\* when there is none).
RECURSIVE SkipSpaces(_, _)
SkipSpaces(s, i) ==
  IF i <= Len(s) /\ IsSpace(s[i]) THEN SkipSpaces(s, i + 1) ELSE i

\* /<\s*name\s*>/i matched at index i: the index of its last character, or 0.
AngleEnd(s, i) ==
  IF s[i] # "<"
    THEN 0
    ELSE LET a == SkipSpaces(s, i + 1)
         IN  IF a + 3 <= Len(s)
                  /\ [n \in 1..4 |-> Lower(s[a + n - 1])] = <<"n", "a", "m", "e">>
               THEN LET b == SkipSpaces(s, a + 4)
                    IN  IF b <= Len(s) /\ s[b] = ">" THEN b ELSE 0
               ELSE 0

\* s.replace(/<\s*name\s*>/gi, rep), from index i.
RECURSIVE ReplaceAngle(_, _, _)
ReplaceAngle(s, i, rep) ==
  IF i > Len(s)
    THEN <<>>
    ELSE IF AngleEnd(s, i) > 0
           THEN rep \o ReplaceAngle(s, AngleEnd(s, i) + 1, rep)
           ELSE <<s[i]>> \o ReplaceAngle(s, i + 1, rep)

\* s.replace(/[chars]/g, '')
RemoveChars(s, chars) == SelectSeq(s, LAMBDA c : c \notin chars)

\* The index of the last character of the maximal run from i on of
\* characters of the class (i - 1 when s[i] is not of it).
RECURSIVE RunEnd(_, _, _)
RunEnd(s, i, class) ==
  IF i <= Len(s) /\ s[i] \in class THEN RunEnd(s, i + 1, class) ELSE i - 1

\* s.replace(/\s+\n/g, '\n'), from index i: the greedy \s+ gives back
\* characters up to the last line break of the run.
RECURSIVE CollapseBeforeBreak(_, _)
CollapseBeforeBreak(s, i) ==
  IF i > Len(s)
    THEN <<>>
    ELSE LET e == RunEnd(s, i, Spaces)
             breaks == {j \in (i + 1)..e : s[j] = "\n"}
         IN  IF breaks # {}
               THEN <<"\n">> \o
                    CollapseBeforeBreak(s, (CHOOSE j \in breaks : \A m \in breaks : j >= m) + 1)
               ELSE <<s[i]>> \o CollapseBeforeBreak(s, i + 1)

\* s.replace(/X{least,}/g, rep) for a character class X, from index i.
RECURSIVE CollapseRuns(_, _, _, _, _)
CollapseRuns(s, i, class, least, rep) ==
  IF i > Len(s)
    THEN <<>>
    ELSE LET e == RunEnd(s, i, class)
         IN  IF e - i + 1 >= least
               THEN rep \o CollapseRuns(s, e + 1, class, least, rep)
               ELSE <<s[i]>> \o CollapseRuns(s, i + 1, class, least, rep)

\* Lines 28-45
sanitizeMessage(msg, name, username) ==
  LET fallback == IF name # <<>> THEN name ELSE username
      out1 == Trim(msg)
      out2 == ReplaceLiterals(out1, 1, BracketTokens, fallback)
      out3 == ReplaceLiterals(out2, 1, BraceTokens, fallback)
      out4 == ReplaceAngle(out3, 1, fallback)
      out5 == RemoveChars(out4, {"*", Backtick, "_", ">", "#"})
      out6 == RemoveChars(out5, {"[", "]", "<", ">"})
      out7 == CollapseBeforeBreak(out6, 1)
      out8 == CollapseRuns(out7, 1, {"\n"}, 3, <<"\n", "\n">>)
      out9 == CollapseRuns(out8, 1, Spaces, 2, <<" ">>)
  IN  Trim(out9)

\* The raw texts: up to MaxPieces pieces, each a character the sanitizer
\* treats specially or a part of a word.
MaxPieces == 5

Pieces ==
  { <<"{">>, <<"}">>, <<"[">>, <<"]">>, <<"<">>, <<">">>, <<"*">>,
    <<" ">>, <<"\n">>, <<"n", "a">>, <<"m", "e">> }

RECURSIVE TextsUpTo(_)
TextsUpTo(n) ==
  IF n = 0
    THEN {<<>>}
    ELSE LET shorter == TextsUpTo(n - 1)
         IN  shorter \cup {t \o piece : t \in shorter, piece \in Pieces}

\* user.full_name || '' and the handle
DisplayNames == {<<>>, <<"B", "o">>}
Handle == <<"a", "l">>

SanitizeProbe(msg, name, username) ==
  [fn |-> "sanitizeMessage", msg |-> msg, name |-> name, username |-> username,
   done |-> FALSE, once |-> <<>>, twice |-> <<>>]

InitSanitize ==
  /\ state = InitialState
  /\ job = [k \in JobIds |-> IdleJob]
  /\ now = 0
  /\ apiKey = "sk-or-key"
  /\ res = NoResponse
  /\ advances = 0
  /\ \E msg \in TextsUpTo(MaxPieces), name \in DisplayNames :
       probe = SanitizeProbe(msg, name, Handle)

\* The sanitizer is applied to the raw text, and again to its own output.
Sanitize ==
  /\ probe.fn = "sanitizeMessage"
  /\ ~probe.done
  /\ LET once == sanitizeMessage(probe.msg, probe.name, probe.username)
     IN  probe' = [probe EXCEPT
                     !.done = TRUE,
                     !.once = once,
                     !.twice = sanitizeMessage(once, probe.name, probe.username)]
  /\ UNCHANGED <<state, job, now, apiKey, res, advances>>

SpecSanitize == InitSanitize /\ [][Sanitize]_vars

\* The network stages of a dispatch (resolve, generate, send).
DispatchPcs == {"resolve", "generate", "send"}
Dispatching == {k \in JobIds : job[k].pc \in DispatchPcs}

\* C11: when a stop request has arrived while a loop's dispatch was in
\* flight, the dispatch still completes and is counted (sent or failed goes
\* up by one), and the loop then observes the stop: it exits without waiting
\* and without beginning another recipient.
C11_StopObservedAfterDispatch ==
  [][\A k \in JobIds :
       (/\ res.route = "stop"
        /\ job[k].pc \in DispatchPcs
        /\ job'[k] # job[k]
        /\ \/ DispatchSucceeds(k)
           \/ \E msg \in DispatchErrors : DispatchFails(k, msg)) =>
         /\ state'.sent + state'.failed = state.sent + state.failed + 1
         /\ job'[k].pc = "done"]_vars

\* C12: at no moment are two dispatches in flight at once.
C12_OneDispatchInFlight == Cardinality(Dispatching) <= 1

\* A job of two recipients has run alone and to its end with no failure.
TwoSentAlone(k) ==
  /\ job[k].pc = "done"
  /\ job[k].exit = "exhausted"
  /\ \A m \in JobIds \ {k} : job[m].pc = "idle"
  /\ state.total = 2
  /\ state.failed = 0

\* C13: under the fairness of SpecLive (awaited calls return, timers fire,
\* time advances) every loop that is alive eventually exits, and whenever
\* running is true a later status read reports running = false; a job of two
\* recipients that ran alone with no failure ends with a status of
\* running = false, sent = 2, failed = 0, index = 1.
C13_LoopEventuallyExits ==
  /\ \A k \in JobIds : Live(k) ~> (job[k].pc = "done")
  /\ state.running ~> ~StatusBody(state, now).running
  /\ [](\A k \in JobIds :
          TwoSentAlone(k) =>
            /\ ~StatusBody(state, now).running
            /\ StatusBody(state, now).sent = 2
            /\ StatusBody(state, now).failed = 0
            /\ StatusBody(state, now).index = 1)

\* A job of two recipients has run alone to its end, through its wait, and
\* the status has been read.
C13_Witness ==
  /\ \E k \in JobIds : TwoSentAlone(k)
  /\ now >= (base + JitterMin) * 1000
  /\ res.route = "status"
  /\ ~res.body.running

\* The entries of a supplied proxy list that are strings, parse as URLs,
\* have the scheme http or https, and a host and a port that are not empty.
ValidSupplied(proxies) ==
  IF proxies.isArray
    THEN { proxies.items[j].v :
             j \in { n \in 1..Len(proxies.items) :
                       /\ proxies.items[n].t = "string"
                       /\ ParseURL(proxies.items[n].v).ok
                       /\ ParseURL(proxies.items[n].v).protocol \in {"http:", "https:"}
                       /\ ParseURL(proxies.items[n].v).hostname # ""
                       /\ ParseURL(proxies.items[n].v).port # "" } }
    ELSE {}

\* The valid entries of a supplied list, in the order of the list.
ValidInOrder(proxies) ==
  IF proxies.isArray
    THEN LET keep == SelectSeq(proxies.items, LAMBDA p : p.v \in ValidSupplied(proxies))
         IN  [n \in 1..Len(keep) |-> keep[n].v]
    ELSE <<>>

\* C14: the dispatch attempt of recipient i (the attempt number i, counted
\* from 0) uses entry i mod length of the job's valid proxies, and the cursor
\* has then advanced i + 1 times, whatever the earlier attempts' outcomes;
\* with no valid proxy no proxy is used and the cursor stays at 0.
C14_RoundRobin ==
  \A k \in JobIds :
    Live(k) =>
      LET list == ValidInOrder(job[k].proxies)
      IN  IF Len(list) = 0
            THEN /\ job[k].proxyUrl = None
                 /\ state.currentProxy = None
                 /\ job[k].proxyIndex = 0
            ELSE /\ job[k].proxyUrl = Some(list[(job[k].i % Len(list)) + 1])
                 /\ state.currentProxy = job[k].proxyUrl
                 /\ job[k].proxyIndex = job[k].i + 1

\* The fifth attempt of a job with three valid proxies uses the second one,
\* after attempts that failed and attempts that succeeded.
C14_Witness ==
  /\ job[1].pc \in DispatchPcs
  /\ job[1].proxies = ThreeProxies
  /\ job[1].i = 4
  /\ job[1].proxyUrl = Some("https://proxy.example:3128")
  /\ state.sent > 0
  /\ state.failed > 0

\* C15: the job's proxy list is the supplied list without its invalid
\* entries, and currentProxy and the session's proxy are absent or a valid
\* entry of the supplied list.
C15_OnlyValidProxies ==
  /\ \A k \in JobIds :
       /\ Live(k) => job[k].proxyList = ValidInOrder(job[k].proxies)
       /\ \/ job[k].proxyUrl = None
          \/ job[k].proxyUrl[1] \in ValidSupplied(job[k].proxies)
       /\ Live(k) => state.currentProxy = job[k].proxyUrl
  /\ \/ state.currentProxy = None
     \/ \E body \in OneJobBodies : state.currentProxy[1] \in ValidSupplied(body.proxies)

\* A job whose list held invalid entries of every kind is at its third
\* recipient, through a proxy.
C15_Witness ==
  /\ job[1].pc \in DispatchPcs
  /\ job[1].proxies = MixedProxies
  /\ job[1].i = 2
  /\ state.currentProxy = Some("http://10.0.0.1:8080")

\* C16: a wait is base + jitter + extra seconds with base 3600, jitter an
\* integer of 180..420 and extra 0 or an integer of 60..120, so that it lies
\* in 3780..4140.
C16_WaitRange ==
  (probe.fn = "waitSec" /\ probe.done) =>
    /\ probe.jitter \in 180..420
    /\ probe.captchaExtra \in {0} \cup (60..120)
    /\ probe.waitSec = 3600 + probe.jitter + probe.captchaExtra
    /\ probe.waitSec \in 3780..4140

\* The longest wait has been computed.
C16_Witness ==
  /\ probe.fn = "waitSec"
  /\ probe.done
  /\ probe.jitter = 420
  /\ probe.captchaExtra = 120
  /\ probe.waitSec = 4140

\* The dispatch of handler k's current recipient completes.
DispatchCompletes(k) ==
  /\ job[k].pc \in DispatchPcs
  /\ job'[k] # job[k]
  /\ job'[k].pc \notin {"generate", "send"}

\* C17: a wait is computed exactly when the dispatch of a recipient other
\* than the last completes in a job that is not cancelled, it is computed
\* once (its target does not change while it lasts), and it ends with the
\* dispatch of the next recipient; when the dispatch of the last recipient
\* completes the loop exits and nextSendAt is absent.  A job of n recipients
\* so performs n - 1 waits.
C17_WaitsBetweenRecipients ==
  [][\A k \in JobIds :
       LET n == Len(job[k].usernames)
       IN  /\ (DispatchCompletes(k) /\ state.running /\ job[k].i < n - 1) =>
                /\ job'[k].pc = "wait"
                /\ job'[k].i = job[k].i
                /\ job'[k].target - now \in (3780 * 1000)..(4140 * 1000)
                /\ state'.nextSendAt = Some(job'[k].target)
           /\ (DispatchCompletes(k) /\ job[k].i = n - 1) =>
                /\ job'[k].pc = "done"
                /\ state'.nextSendAt = None
           /\ (job[k].pc # "wait" /\ job'[k].pc = "wait") =>
                DispatchCompletes(k) /\ job[k].i < n - 1
           /\ (job[k].pc = "wait" /\ job'[k].pc = "wait") =>
                job'[k].target = job[k].target /\ job'[k].i = job[k].i
           /\ (job[k].pc = "wait" /\ job'[k].pc # "wait" /\ state.running) =>
                job'[k].pc = "resolve" /\ job'[k].i = job[k].i + 1]_vars

\* A job of three recipients has run to its end through two waits.
C17_Witness ==
  /\ job[1].pc = "done"
  /\ job[1].exit = "exhausted"
  /\ state.total = 3
  /\ state.sent + state.failed = 3
  /\ state.nextSendAt = None
  /\ now >= 2 * 3780 * 1000

\* C18: nextSendAt is present only while a loop is inside its inter-send
\* wait; it is absent while a recipient is being dispatched and when idle.
C18_PresentOnlyInWait ==
  state.nextSendAt # None => \E k \in JobIds : job[k].pc = "wait"

\* What holds of nextSendAt instead: it is absent whenever running is false
\* and whenever no loop is alive; when present it is the target of the
\* latest wait of a live loop, which is inside that wait or is dispatching a
\* later recipient.
NextSendAtStaysUntilExit ==
  /\ ~state.running => state.nextSendAt = None
  /\ LiveLoops = {} => state.nextSendAt = None
  /\ state.nextSendAt # None =>
       \E k \in LiveLoops :
         /\ state.nextSendAt = Some(job[k].target)
         /\ job[k].pc = "wait" \/ job[k].i > 0

\* C19: running goes from false to true only in the step of a start request
\* whose login has succeeded, and that step replaces the whole JobState:
\* running = true, index, sent and failed 0, lastError and nextSendAt absent,
\* lastStep = login_success, the other fields taken from the request; the
\* loop's first run, in the same step, then names the first recipient, its
\* proxy and its stage.  Nothing of the JobState before the step remains.
C19_RunningOnlyByFreshStart ==
  [][(~state.running /\ state'.running) =>
       \E k \in JobIds :
         /\ job[k].pc = "login"
         /\ job'[k].pc = "resolve"
         /\ res' = Response("start", 200, [ok |-> TRUE])
         /\ LET valid == ValidInOrder(job[k].proxies)
                fresh == [ running |-> TRUE, igUser |-> Some(job[k].igUsername),
                           total |-> Len(job[k].usernames), index |-> 0,
                           sent |-> 0, failed |-> 0, currentUsername |-> None,
                           currentProxy |-> None, userAgent |-> job[k].userAgent,
                           nextSendAt |-> None, lastError |-> None,
                           lastStep |-> Some("login_success") ]
            IN  state' =
                  [fresh EXCEPT
                     !.currentUsername = Some(job[k].usernames[1]),
                     !.currentProxy = IF Len(valid) > 0 THEN Some(valid[1]) ELSE None,
                     !.lastStep = Some("resolve_user_pk")]]_vars

\* A start has been accepted after an earlier job that counted a failure
\* had finished.
C19_Witness ==
  /\ res = Response("start", 200, [ok |-> TRUE])
  /\ state.running
  /\ state.sent = 0 /\ state.failed = 0 /\ state.lastError = None
  /\ \E k, m \in JobIds :
       /\ job[k].pc = "resolve" /\ job[k].i = 0
       /\ job[m].pc = "done" /\ job[m].exit = "exhausted"

\* C20: a status request changes nothing of the JobState, of any loop or of
\* the clock, and its secondsRemaining is 0 when nextSendAt is absent or not
\* in the future, and otherwise the least whole number of seconds that
\* reaches nextSendAt from now; it is never negative.
C20_StatusReadOnly ==
  [][res'.route = "status" =>
       /\ state' = state
       /\ job' = job
       /\ now' = now
       /\ res'.code = 200
       /\ LET sr == res'.body.secondsRemaining
          IN  /\ sr >= 0
              /\ IF state.nextSendAt = None
                   THEN sr = 0
                   ELSE LET d == state.nextSendAt[1] - now
                        IN  IF d <= 0
                              THEN sr = 0
                              ELSE sr * 1000 >= d /\ (sr - 1) * 1000 < d]_vars

\* The status has been read during a wait, a fraction of a second into it.
C20_Witness ==
  /\ res.route = "status"
  /\ state.nextSendAt # None
  /\ state.nextSendAt[1] > now
  /\ res.body.secondsRemaining * 1000 > state.nextSendAt[1] - now

\* The status has been read after a wait's target has passed.
C20_WitnessPast ==
  /\ res.route = "status"
  /\ state.nextSendAt # None
  /\ state.nextSendAt[1] < now
  /\ res.body.secondsRemaining = 0

\* C21 (as stated): lastStep is absent or one of login_success,
\* resolve_user, generate_message, send_message.
C21_LastStepEnum ==
  state.lastStep \in {None, Some("login_success"), Some("resolve_user"),
                       Some("generate_message"), Some("send_message")}

\* The value of lastStep that names the stage a loop is at.
StageName(pc) ==
  CASE pc = "resolve" -> "resolve_user_pk"
    [] pc = "generate" -> "generate_message"
    [] pc = "send" -> "send_dm"

\* Handler k enters a stage of a dispatch.
EntersStage(k) ==
  /\ job'[k].pc \in DispatchPcs
  /\ job'[k].pc # job[k].pc \/ job'[k].i # job[k].i

\* C21 (amended): lastStep is absent or one of login_success,
\* resolve_user_pk, generate_message, send_dm; a loop that enters a stage
\* sets it to that stage's name, and it changes in no other step, so that it
\* names the last stage attempted.
C21_LastStepNamesStage ==
  /\ [](state.lastStep \in {None, Some("login_success"), Some("resolve_user_pk"),
                             Some("generate_message"), Some("send_dm")})
  /\ [][\A k \in JobIds :
          EntersStage(k) => state'.lastStep = Some(StageName(job'[k].pc))]_vars
  /\ [][state'.lastStep # state.lastStep => \E k \in JobIds : EntersStage(k)]_vars

\* A job has ended with a failed send: lastStep still names the send stage.
C21_Witness ==
  /\ state.lastStep = Some("send_dm")
  /\ state.lastError = Some("Request failed")
  /\ ~state.running
  /\ \E k \in JobIds : job[k].pc = "done"

\* C22: the sanitizer applied to its own output returns that output.
C22_SanitizeIdempotent ==
  (probe.fn = "sanitizeMessage" /\ probe.done) => probe.twice = probe.once

\* A placeholder token of the sanitizer's own patterns occurs in the text.
HasPlaceholder(s) ==
  \E i \in 1..Len(s) :
    \/ \E pat \in BracketTokens \cup BraceTokens : MatchesAt(s, i, pat)
    \/ AngleEnd(s, i) > 0

\* C23: the sanitizer's output holds none of the characters * ` _ > # [ ] <
\* and no bracket, brace or angle-bracket placeholder token for the name.
C23_NoMarkupNoPlaceholder ==
  (probe.fn = "sanitizeMessage" /\ probe.done) =>
    /\ \A i \in 1..Len(probe.once) :
         probe.once[i] \notin {"*", Backtick, "_", ">", "#", "[", "]", "<"}
    /\ ~HasPlaceholder(probe.once)

\* What holds of the sanitizer instead: its output holds none of the
\* characters * ` _ > # [ ] <, and it is a fixed point of the sanitizer
\* unless a brace placeholder is left in it.
SanitizedHasNoMarkup ==
  (probe.fn = "sanitizeMessage" /\ probe.done) =>
    /\ \A i \in 1..Len(probe.once) :
         probe.once[i] \notin {"*", Backtick, "_", ">", "#", "[", "]", "<"}
    /\ ~HasPlaceholder(probe.once) => probe.twice = probe.once

\* Exactly one of sent and failed goes up by one, the other stays.
CountsOne ==
  \/ state'.sent = state.sent + 1 /\ state'.failed = state.failed
  \/ state'.failed = state.failed + 1 /\ state'.sent = state.sent

\* C24: a recipient's dispatch begins with the proxy rotation and the
\* resolve call; generate is entered only from a resolve that succeeded and
\* send only from a generate that succeeded (with the sanitizer in between),
\* for the same recipient; a stage that fails ends the dispatch and counts
\* one failure; sent goes up only when a send call has succeeded; and every
\* dispatch that ends counts exactly one of sent and failed.
C24_StageOrder ==
  [][\A k \in JobIds :
       /\ (job'[k].pc = "resolve" /\ job'[k] # job[k]) =>
            /\ job[k].pc \in {"login", "wait"}
            /\ job'[k].proxyIndex =
                 IF Len(job'[k].proxyList) > 0 THEN job'[k].i + 1 ELSE 0
       /\ (job'[k].pc = "generate" /\ job'[k] # job[k]) =>
            /\ job[k].pc = "resolve"
            /\ job'[k].i = job[k].i
            /\ state'.sent = state.sent /\ state'.failed = state.failed
       /\ (job'[k].pc = "send" /\ job'[k] # job[k]) =>
            /\ job[k].pc = "generate"
            /\ job'[k].i = job[k].i
            /\ state'.sent = state.sent /\ state'.failed = state.failed
       /\ DispatchCompletes(k) =>
            /\ CountsOne
            /\ job[k].pc \in {"resolve", "generate"} =>
                 state'.failed = state.failed + 1
            /\ job'[k].pc \in {"wait", "done"}
       /\ (state'.sent > state.sent) =>
            \E m \in JobIds : job[m].pc = "send" /\ DispatchCompletes(m)]_vars

\* A job of two recipients has ended with one message sent and one
\* dispatch that failed at the generate stage.
C24_Witness ==
  /\ \E k \in JobIds : job[k].pc = "done" /\ job[k].exit = "exhausted"
  /\ state.total = 2
  /\ state.sent = 1
  /\ state.failed = 1
  /\ state.lastStep = Some("generate_message")
  /\ state.lastError = Some("OpenRouter failed with status 429")

\* The fields of the JobState a loop writes as it goes on.
ProgressFields == {"index", "sent", "failed", "currentUsername", "nextSendAt", "running"}

\* C25: a loop writes only into the JobState of its own job: whenever a
\* step of a live loop changes index, sent, failed, currentUsername,
\* nextSendAt or running, the JobState is the one its own start created,
\* whose total is the number of the loop's recipients.
C25_LoopWritesOwnJobState ==
  [][\A k \in JobIds :
       (/\ Live(k)
        /\ job'[k] # job[k]
        /\ \E f \in ProgressFields : state'[f] # state[f]) =>
         state.total = Len(job[k].usernames)]_vars

====
